---- MODULE Spec2Model ----
(***************************************************************************)
(* BedrockSmith (src/app.py): a Streamlit viewer for Bedrock invocation    *)
(* logs.  The module models                                                *)
(*   - the log message parser split_event and the tag builder write_tag as *)
(*     operators over Python values decoded from JSON documents, and       *)
(*   - the Streamlit script as a state machine over st.session_state: one  *)
(*     action per user interaction, each running the whole script.         *)
(***************************************************************************)
EXTENDS Integers, Sequences, FiniteSets, TLC

VARIABLES
    session_state,  \* st.session_state: a mapping with keys among "events", "event"
    submit,         \* value of the "ログ取得" button in the last script run
    sidebar,        \* containers the last run rendered in the sidebar list
    main,           \* what the last run rendered in the main area
    exception,      \* uncaught exception that ended the last run, or NoException
    message,        \* parser harness: the message handed to split_event
    parsed,         \* parser harness: result of split_event(message)
    tagged,         \* parser harness: result of write_tag on the parsed event
    pc              \* parser harness: "input", "parsed" or "tagged" ("idle" when unused)

vars == <<session_state, submit, sidebar, main, exception, message, parsed, tagged, pc>>
uiVars == <<session_state, submit, sidebar, main, exception>>
parseVars == <<message, parsed, tagged, pc>>

-----------------------------------------------------------------------------
(* Bounds *)

MaxTokens == 1      \* token counts in usage range over 0..MaxTokens
MaxEventId == 7     \* log events of the stream have eventId in 1..MaxEventId
MaxLimit == 3       \* value of the "取得件数" slider: most events one fetch returns

-----------------------------------------------------------------------------
(* Results of Python evaluation: a value, or a raised exception. *)

Ok(v) == [ok |-> TRUE, val |-> v]
Raise(e) == [ok |-> FALSE, exc |-> e]
Then(r, F(_)) == IF r.ok THEN F(r.val) ELSE r

(* Python values *)
None == [t |-> "NoneType"]
PyInt(n) == [t |-> "int", n |-> n]
PyStr(s) == [t |-> "str", s |-> s]
PyList(a) == [t |-> "list", a |-> a]
PyDict(d) == [t |-> "dict", d |-> d]

(* JSON documents: the text of a message that is valid JSON *)
JNull == [j |-> "null"]
JNum(n) == [j |-> "number", n |-> n]
JStr(s) == [j |-> "string", s |-> s]
JArr(a) == [j |-> "array", a |-> a]
JObj(m) == [j |-> "object", m |-> m]

(* A message is a string: either the text of a JSON document or not. *)
NotJson == [valid |-> FALSE]
JsonText(doc) == [valid |-> TRUE, doc |-> doc]

RECURSIVE decode(_)
decode(doc) ==
    CASE doc.j = "null" -> None
      [] doc.j = "number" -> PyInt(doc.n)
      [] doc.j = "string" -> PyStr(doc.s)
      [] doc.j = "array" -> PyList([i \in DOMAIN doc.a |-> decode(doc.a[i])])
      [] doc.j = "object" -> PyDict([k \in DOMAIN doc.m |-> decode(doc.m[k])])

json_loads(s) ==
    IF s.valid THEN Ok(decode(s.doc)) ELSE Raise("JSONDecodeError")

(* bool(v): Python truth value *)
Truthy(v) ==
    CASE v.t = "NoneType" -> FALSE
      [] v.t = "int" -> v.n # 0
      [] v.t = "str" -> v.s # ""
      [] v.t = "list" -> Len(v.a) > 0
      [] v.t = "dict" -> DOMAIN v.d # {}

(* Pairs <<k, s>> of the strings used below with k a proper substring of s *)
ProperSubstrings ==
    {<<"input", "inputBodyJson">>, <<"input", "inputBodyS3Path">>,
     <<"output", "outputBodyJson">>}

IsSubstring(k, s) == k = "" \/ k = s \/ <<k, s>> \in ProperSubstrings

(* key in c, for a str key *)
PyIn(key, c) ==
    CASE c.t = "dict" -> Ok(key \in DOMAIN c.d)
      [] c.t = "list" -> Ok(\E i \in DOMAIN c.a : c.a[i] = PyStr(key))
      [] c.t = "str" -> Ok(IsSubstring(key, c.s))
      [] OTHER -> Raise("TypeError")

(* c[key], for a str key *)
PyGetItem(c, key) ==
    IF c.t = "dict"
    THEN IF key \in DOMAIN c.d THEN Ok(c.d[key]) ELSE Raise("KeyError")
    ELSE Raise("TypeError")

(* v / d, for an int d # 0: the quotient is kept as a fraction *)
PyTrueDiv(v, d) ==
    IF v.t = "int" THEN Ok([t |-> "float", num |-> v.n, den |-> d])
    ELSE Raise("TypeError")

-----------------------------------------------------------------------------
(* split_event *)

InputFields(json, s3) == [input_body_json |-> json, input_body_s3_path |-> s3]

(* Variant of ExtractInput that looks for inputBodyS3Path first *)
ExtractInputPathFirst(event) ==
    Then(PyIn("input", event), LAMBDA hasInput :
      IF ~hasInput THEN Ok(InputFields(None, None)) ELSE
      Then(PyGetItem(event, "input"), LAMBDA inp :
      Then(PyIn("inputBodyS3Path", inp), LAMBDA hasS3 :
        IF hasS3
        THEN Then(PyGetItem(inp, "inputBodyS3Path"), LAMBDA v :
                 Ok(InputFields(None, v)))
        ELSE Then(PyIn("inputBodyJson", inp), LAMBDA hasJson :
               IF hasJson
               THEN Then(PyGetItem(inp, "inputBodyJson"), LAMBDA v :
                        Ok(InputFields(v, None)))
               ELSE Ok(InputFields(None, None))))))

(* if "input" in event: ... inputBodyJson, elif inputBodyS3Path *)
ExtractInput(event) ==
    Then(PyIn("input", event), LAMBDA hasInput :
      IF ~hasInput THEN Ok(InputFields(None, None)) ELSE
      Then(PyGetItem(event, "input"), LAMBDA inp :
      Then(PyIn("inputBodyJson", inp), LAMBDA hasJson :
        IF hasJson
        THEN Then(PyGetItem(inp, "inputBodyJson"), LAMBDA v :
                 Ok(InputFields(v, None)))
        ELSE Then(PyIn("inputBodyS3Path", inp), LAMBDA hasS3 :
               IF hasS3
               THEN Then(PyGetItem(inp, "inputBodyS3Path"), LAMBDA v :
                        Ok(InputFields(None, v)))
               ELSE Ok(InputFields(None, None))))))

(* if "output" in event: ... outputBodyJson *)
ExtractOutput(event) ==
    Then(PyIn("output", event), LAMBDA hasOutput :
      IF ~hasOutput THEN Ok(None) ELSE
      Then(PyGetItem(event, "output"), LAMBDA out :
      Then(PyIn("outputBodyJson", out), LAMBDA hasJson :
        IF hasJson THEN PyGetItem(out, "outputBodyJson") ELSE Ok(None))))

(* Variant of RequiredField in the manner of event.get(key) *)
RequiredFieldDefaulted(event, key) ==
    IF event.t = "dict" /\ key \in DOMAIN event.d THEN Ok(event.d[key]) ELSE Ok(None)

(* event["timestamp"], event["modelId"], event["operation"] *)
RequiredField(event, key) == PyGetItem(event, key)

ZeroUsage ==
    PyDict([inputTokens |-> PyInt(0), outputTokens |-> PyInt(0), totalTokens |-> PyInt(0)])

(* Variant of OutputMetadata whose default branch also sets stopReason *)
OutputMetadataNullStop(output_body_json) ==
    IF Truthy(output_body_json)
    THEN Then(PyGetItem(output_body_json, "stopReason"), LAMBDA stopReason :
         Then(PyGetItem(output_body_json, "usage"), LAMBDA usage :
         Then(PyGetItem(output_body_json, "metrics"), LAMBDA metrics :
         Then(PyGetItem(metrics, "latencyMs"), LAMBDA latencyMs :
           Ok([stopReason |-> stopReason, usage |-> usage, latencyMs |-> latencyMs])))))
    ELSE Ok([stopReason |-> None, usage |-> ZeroUsage, latencyMs |-> PyInt(0)])

(* if output_body_json: ... else: the zero usage and latencyMs *)
OutputMetadata(output_body_json) ==
    IF Truthy(output_body_json)
    THEN Then(PyGetItem(output_body_json, "stopReason"), LAMBDA stopReason :
         Then(PyGetItem(output_body_json, "usage"), LAMBDA usage :
         Then(PyGetItem(output_body_json, "metrics"), LAMBDA metrics :
         Then(PyGetItem(metrics, "latencyMs"), LAMBDA latencyMs :
           Ok([stopReason |-> stopReason, usage |-> usage, latencyMs |-> latencyMs])))))
    ELSE Ok([usage |-> ZeroUsage, latencyMs |-> PyInt(0)])

CopyIfPresent(body, key) ==
    Then(PyIn(key, body), LAMBDA has :
      IF has THEN Then(PyGetItem(body, key), LAMBDA v : Ok(key :> v))
      ELSE Ok(<<>>))

InputMetadata(input_body_json) ==
    IF Truthy(input_body_json)
    THEN Then(CopyIfPresent(input_body_json, "inferenceConfig"), LAMBDA ic :
         Then(CopyIfPresent(input_body_json, "additionalModelRequestFields"), LAMBDA amrf :
           Ok(amrf @@ ic)))
    ELSE Ok(<<>>)

(* Variant of ExtractErrorCode that falls back to output.errorCode *)
ExtractErrorCodeNested(event) ==
    Then(PyIn("errorCode", event), LAMBDA has :
      IF has THEN PyGetItem(event, "errorCode")
      ELSE LET out == PyGetItem(event, "output") IN
           IF out.ok /\ out.val.t = "dict" /\ "errorCode" \in DOMAIN out.val.d
           THEN Ok(out.val.d["errorCode"]) ELSE Ok(None))

(* if "errorCode" in event *)
ExtractErrorCode(event) ==
    Then(PyIn("errorCode", event), LAMBDA has :
      IF has THEN PyGetItem(event, "errorCode") ELSE Ok(None))

split_event(msg) ==
    Then(json_loads(msg), LAMBDA event :
    Then(ExtractInput(event), LAMBDA inp :
    Then(ExtractOutput(event), LAMBDA output_body_json :
    Then(RequiredField(event, "timestamp"), LAMBDA timestamp :
    Then(RequiredField(event, "modelId"), LAMBDA modelId :
    Then(RequiredField(event, "operation"), LAMBDA operation :
    Then(OutputMetadata(output_body_json), LAMBDA om :
    Then(InputMetadata(inp.input_body_json), LAMBDA im :
    Then(ExtractErrorCode(event), LAMBDA errorCode :
      Ok([input_body_json |-> inp.input_body_json,
          input_body_s3_path |-> inp.input_body_s3_path,
          output_body_json |-> output_body_json,
          metadata |-> im @@ om @@
              [timestamp |-> timestamp, modelId |-> modelId, operation |-> operation],
          errorCode |-> errorCode]))))))))))

-----------------------------------------------------------------------------
(* write_tag *)

MetadataItem(metadata, key) ==
    IF key \in DOMAIN metadata THEN Ok(metadata[key]) ELSE Raise("KeyError")

(* if errorCode: *)
ErrorTag(errorCode) == Truthy(errorCode)

write_tag(metadata, errorCode) ==
    Then(MetadataItem(metadata, "modelId"), LAMBDA modelId :
    Then(MetadataItem(metadata, "latencyMs"), LAMBDA latencyMs :
    Then(PyTrueDiv(latencyMs, 1000), LAMBDA seconds :
    Then(MetadataItem(metadata, "usage"), LAMBDA usage :
    Then(PyGetItem(usage, "totalTokens"), LAMBDA totalTokens :
    Then(MetadataItem(metadata, "operation"), LAMBDA operation :
      LET tags == << [icon |-> "model", text |-> modelId],
                     [icon |-> "latency", text |-> seconds],
                     [icon |-> "tokens", text |-> totalTokens],
                     [icon |-> "operation", text |-> operation] >>
          color_name == << "BLUE", "GREEN", "ORANGE", "GRAY" >>
      IN IF ErrorTag(errorCode)
         THEN Ok([tags |-> Append(tags, [icon |-> "error", text |-> PyStr("ERROR")]),
                  color_name |-> Append(color_name, "RED")])
         ELSE Ok([tags |-> tags, color_name |-> color_name])))))))

-----------------------------------------------------------------------------
(* Messages handed to the parser *)

Absent == [j |-> "absent"]     \* marks a key that the document does not have

TopLevelKeys == {"timestamp", "modelId", "operation", "input", "output", "errorCode"}
RequiredKeys == {"timestamp", "modelId", "operation"}

Usage(n) == JObj([inputTokens |-> JNum(0), outputTokens |-> JNum(n), totalTokens |-> JNum(n)])
Metrics(v) == JObj([latencyMs |-> v])

TextBlock(text) == JObj([text |-> JStr(text)])
ChatMessage(role, text) == JObj([role |-> JStr(role), content |-> JArr(<<TextBlock(text)>>)])

ConverseOutput(n) ==
    JObj([output |-> JObj([message |-> ChatMessage("assistant", "hello")]),
          stopReason |-> JStr("end"), usage |-> Usage(n), metrics |-> Metrics(JNum(500 * n))])

OutputBodies ==
    {ConverseOutput(n) : n \in 0..MaxTokens} \cup
    { JObj(<<>>), JNull,
      JObj([usage |-> Usage(1), metrics |-> Metrics(JNum(500))]),
      JObj([stopReason |-> JStr("end"), usage |-> JObj(<<>>), metrics |-> Metrics(JNum(500))]),
      JObj([stopReason |-> JStr("end"), usage |-> Usage(1), metrics |-> Metrics(JNull)]) }

OutputContainers ==
    {JObj([outputBodyJson |-> b]) : b \in OutputBodies} \cup
    { JObj(<<>>), JNull, JObj([errorCode |-> JStr("ThrottlingException")]) }

ConverseInput == JObj([messages |-> JArr(<<ChatMessage("user", "hi")>>)])

InputBodies ==
    { ConverseInput, JObj(<<>>), JNull,
      JObj([messages |-> JArr(<<>>), inferenceConfig |-> JObj([maxTokens |-> JNum(1)])]),
      JObj([messages |-> JArr(<<>>), inferenceConfig |-> JObj([maxTokens |-> JNum(1)]),
            additionalModelRequestFields |-> JObj([top_k |-> JNum(1)])]) }

S3Path == JStr("s3://bucket/key")

InputContainers ==
    {JObj([inputBodyJson |-> b]) : b \in InputBodies} \cup
    {JObj([inputBodyJson |-> b, inputBodyS3Path |-> S3Path]) : b \in {ConverseInput, JNull}} \cup
    { JObj([inputBodyS3Path |-> S3Path]), JObj([inputBodyS3Path |-> JNull]), JObj(<<>>),
      JObj([errorCode |-> JStr("ValidationException")]),
      JStr("inputBodyJson"), S3Path, JArr(<<>>) }

ErrorCodes == { JStr("ThrottlingException"), JStr(""), JNull }

Document(fields) ==
    JObj([k \in {key \in TopLevelKeys : fields[key] # Absent} |-> fields[k]])

RecordDocuments ==
    { Document([timestamp |-> IF "timestamp" \in req THEN JNum(1000) ELSE Absent,
                modelId |-> IF "modelId" \in req THEN JStr("m1") ELSE Absent,
                operation |-> IF "operation" \in req THEN JStr("Converse") ELSE Absent,
                input |-> inp, output |-> out, errorCode |-> err]) :
        req \in SUBSET RequiredKeys,
        inp \in InputContainers \cup {Absent},
        out \in OutputContainers \cup {Absent},
        err \in ErrorCodes \cup {Absent} }

Messages ==
    {NotJson} \cup
    {JsonText(d) : d \in RecordDocuments \cup {JNull, JNum(5), JStr("input"), JArr(<<>>)}}

-----------------------------------------------------------------------------
(* Parser harness: parse a message, then build the tags of the parsed event
   the way the sidebar loop and the main area do (split_event, write_tag). *)

NoResult == [ok |-> FALSE, exc |-> "not run"]

Parse ==
    /\ pc = "input"
    /\ parsed' = split_event(message)
    /\ pc' = "parsed"
    /\ UNCHANGED <<message, tagged>>
    /\ UNCHANGED uiVars

BuildTags ==
    /\ pc = "parsed"
    /\ parsed.ok
    /\ tagged' = write_tag(parsed.val.metadata, parsed.val.errorCode)
    /\ pc' = "tagged"
    /\ UNCHANGED <<message, parsed>>
    /\ UNCHANGED uiVars

-----------------------------------------------------------------------------
(* Detail pane helpers: write_system, write_input_message, write_output_message *)

(* The items a for loop draws from v.  The characters of a non-empty str are
   collapsed to one str item: the loop bodies below treat every str alike. *)
PyIter(v) ==
    CASE v.t = "list" -> Ok(v.a)
      [] v.t = "str" -> Ok(IF v.s = "" THEN <<>> ELSE <<v>>)
      [] v.t = "dict" -> Ok(IF DOMAIN v.d = {} THEN <<>>
                            ELSE <<PyStr(CHOOSE k \in DOMAIN v.d : TRUE)>>)
      [] OTHER -> Raise("TypeError")

PyUpper(v) == IF v.t = "str" THEN Ok([upper |-> v.s]) ELSE Raise("AttributeError")

RECURSIVE ContentTexts(_, _, _)
ContentTexts(role, content, i) ==
    IF i > Len(content) THEN Ok(<<>>) ELSE
    Then(PyIn("text", content[i]), LAMBDA has :
    Then(IF has
         THEN Then(PyUpper(role), LAMBDA title :
              Then(PyGetItem(content[i], "text"), LAMBDA text :
                Ok(<< [expander |-> title, text |-> text] >>)))
         ELSE Ok(<<>>), LAMBDA head :
    Then(ContentTexts(role, content, i + 1), LAMBDA tail : Ok(head \o tail))))

MessageTexts(msg) ==
    Then(PyGetItem(msg, "role"), LAMBDA role :
    Then(PyGetItem(msg, "content"), LAMBDA content :
    Then(PyIter(content), LAMBDA blocks : ContentTexts(role, blocks, 1))))

RECURSIVE MessagesTexts(_, _)
MessagesTexts(messages, i) ==
    IF i > Len(messages) THEN Ok(<<>>) ELSE
    Then(MessageTexts(messages[i]), LAMBDA head :
    Then(MessagesTexts(messages, i + 1), LAMBDA tail : Ok(head \o tail)))

write_system(body) ==
    Then(PyIn("system", body), LAMBDA has :
      IF ~has THEN Ok(<<>>) ELSE
      Then(PyGetItem(body, "system"), LAMBDA system :
        IF system.t # "list" THEN Raise("TypeError")
        ELSE IF Len(system.a) = 0 THEN Ok(<<>>)
        ELSE Then(PyIn("text", system.a[1]), LAMBDA hasText :
               IF hasText
               THEN Then(PyGetItem(system.a[1], "text"), LAMBDA text :
                        Ok(<< [expander |-> [upper |-> "system"], text |-> text] >>))
               ELSE Ok(<<>>))))

write_input_message(body) ==
    Then(PyGetItem(body, "messages"), LAMBDA messages :
    Then(PyIter(messages), LAMBDA items : MessagesTexts(items, 1)))

write_output_message(body) ==
    Then(PyGetItem(body, "output"), LAMBDA output :
    Then(PyGetItem(output, "message"), LAMBDA msg : MessageTexts(msg)))

-----------------------------------------------------------------------------
(* The log stream and the two CloudWatch Logs calls of the submit handler *)

RecordOf(operation, modelId, inp, out, err) ==
    JsonText(Document([timestamp |-> JNum(1000), modelId |-> modelId,
                       operation |-> JStr(operation),
                       input |-> inp, output |-> out, errorCode |-> err]))

(* Messages that the log events of the stream carry, in turn *)
StreamMessages ==
    << RecordOf("Converse", JStr("m1"), JObj([inputBodyJson |-> ConverseInput]),
                JObj([outputBodyJson |-> ConverseOutput(1)]), Absent),
       RecordOf("ConverseStream", JStr("m1"), JObj([inputBodyS3Path |-> S3Path]),
                Absent, JStr("ThrottlingException")),
       RecordOf("Converse", Absent, JObj([inputBodyJson |-> ConverseInput]),
                JObj([outputBodyJson |-> ConverseOutput(1)]), Absent),
       RecordOf("InvokeModel", JStr("m1"), JObj([inputBodyJson |-> ConverseInput]),
                JObj([outputBodyJson |-> ConverseOutput(1)]), Absent),
       NotJson >>

(* The log stream: event i was logged at 1 + i % 3 *)
LogEvents ==
    { [eventId |-> i, timestamp |-> 1 + (i % 3),
       message |-> StreamMessages[1 + ((i - 1) % Len(StreamMessages))]] : i \in 1..MaxEventId }

(* filterPattern '{($.operation = "Converse") || ($.operation = "ConverseStream")}' *)
MatchesFilter(msg) ==
    /\ msg.valid
    /\ msg.doc.j = "object"
    /\ "operation" \in DOMAIN msg.doc.m
    /\ msg.doc.m["operation"] \in {JStr("Converse"), JStr("ConverseStream")}

(* response["events"] of filter_log_events: at most limit matching events,
   each event of the stream at most once *)
Responses ==
    { r \in UNION {[1..n -> {e \in LogEvents : MatchesFilter(e.message)}] : n \in 0..MaxLimit} :
        \A i, k \in DOMAIN r : i # k => r[i].eventId # r[k].eventId }

FetchOutcomes ==
    { [call |-> "describe_log_streams", raises |-> "ClientError"],
      [call |-> "describe_log_streams", raises |-> "IndexError"],   \* logStreams is empty
      [call |-> "filter_log_events", raises |-> "ClientError"] } \cup
    { [call |-> "filter_log_events", events |-> r] : r \in Responses }

(* sorted(events, key=lambda x: x["timestamp"], reverse=True): stable *)
InsertByTimestamp(rest, x) ==
    SelectSeq(rest, LAMBDA e : e.timestamp >= x.timestamp) \o <<x>> \o
    SelectSeq(rest, LAMBDA e : e.timestamp < x.timestamp)

RECURSIVE sorted_events(_)
sorted_events(events) ==
    IF events = <<>> THEN <<>>
    ELSE InsertByTimestamp(sorted_events(SubSeq(events, 1, Len(events) - 1)),
                           events[Len(events)])

-----------------------------------------------------------------------------
(* The script, block by block.  An uncaught exception ends the run; what the
   run stored in st.session_state before it stays stored. *)

NoException == [stage |-> "none"]
Uncaught(stage, exc) == [stage |-> stage, exc |-> exc]
NotRendered == [rendered |-> FALSE]

Del(ss, key) == [k \in DOMAIN ss \ {key} |-> ss[k]]
Set(ss, key, value) == (key :> value) @@ ss

(* Variant of SubmitBlock that deletes the stored events along with the selection *)
SubmitBlockClearing(ss, outcome) ==
    LET ss1 == Del(Del(ss, "event"), "events") IN
    IF "raises" \in DOMAIN outcome
    THEN [ss |-> ss1, exception |-> Uncaught("fetch", outcome.raises)]
    ELSE [ss |-> Set(ss1, "events", sorted_events(outcome.events)), exception |-> NoException]

(* if submit: ... st.session_state.events = sorted_events *)
SubmitBlock(ss, outcome) ==
    LET ss1 == Del(ss, "event") IN
    IF "raises" \in DOMAIN outcome
    THEN [ss |-> ss1, exception |-> Uncaught("fetch", outcome.raises)]
    ELSE [ss |-> Set(ss1, "events", sorted_events(outcome.events)), exception |-> NoException]

(* One pass of the sidebar loop body *)
SidebarEntry(event) ==
    Then(split_event(event.message), LAMBDA p :
    Then(write_tag(p.metadata, p.errorCode), LAMBDA t :
      Ok([event |-> event, tags |-> t, timestamp |-> p.metadata["timestamp"],
          warning |-> IF Truthy(p.errorCode) THEN p.errorCode ELSE None,
          show |-> ~Truthy(p.errorCode)])))

LoopResult(entries, exc) == [entries |-> entries, exception |-> exc]
Prepend(entry, rest) == LoopResult(<<entry>> \o rest.entries, rest.exception)

(* for event in events: an exception in the body ends the loop and the run *)
RECURSIVE SidebarLoop(_, _)
LoopFrom(entry, events, i) ==
    IF entry.ok THEN Prepend(entry.val, SidebarLoop(events, i + 1))
    ELSE LoopResult(<<>>, Uncaught("sidebar", entry.exc))

SidebarLoop(events, i) ==
    IF i > Len(events) THEN LoopResult(<<>>, NoException)
    ELSE LoopFrom(SidebarEntry(events[i]), events, i)

(* if "event" not in st.session_state and len(events) > 0 *)
DefaultSelection(ss, events, loop) ==
    [ss |-> IF loop.exception = NoException /\ "event" \notin DOMAIN ss /\ Len(events) > 0
            THEN Set(ss, "event", events[1]) ELSE ss,
     entries |-> loop.entries,
     exception |-> loop.exception]

(* if "events" in st.session_state: ... *)
SidebarBlock(ss) ==
    IF "events" \notin DOMAIN ss
    THEN [ss |-> ss, entries |-> <<>>, exception |-> NoException]
    ELSE DefaultSelection(ss, ss["events"], SidebarLoop(ss["events"], 1))

InputPane(p) ==
    IF Truthy(p.input_body_json)
    THEN Then(write_system(p.input_body_json), LAMBDA sys :
         Then(write_input_message(p.input_body_json), LAMBDA texts :
           Ok([text |-> sys \o texts, raw |-> p.input_body_json])))
    ELSE IF Truthy(p.input_body_s3_path)
    THEN Ok([s3 |-> p.input_body_s3_path])
    ELSE Ok([caption |-> "no input"])

OutputPane(p) ==
    IF Truthy(p.output_body_json)
    THEN Then(write_output_message(p.output_body_json), LAMBDA texts :
           Ok([text |-> texts, raw |-> p.output_body_json]))
    ELSE Ok([caption |-> "no output"])

(* if "event" in st.session_state: ... *)
MainBlock(ss) ==
    IF "event" \notin DOMAIN ss THEN Ok(NotRendered)
    ELSE Then(split_event(ss["event"].message), LAMBDA p :
         Then(write_tag(p.metadata, p.errorCode), LAMBDA t :
         Then(InputPane(p), LAMBDA c1 :
         Then(OutputPane(p), LAMBDA c2 :
           Ok([rendered |-> TRUE, event |-> ss["event"], tags |-> t,
               input |-> c1, output |-> c2, metadata |-> p.metadata])))))

Screen(ss, entries, detail, exc) ==
    [session_state |-> ss, sidebar |-> entries, main |-> detail, exception |-> exc]

AfterMain(side, detail) ==
    IF detail.ok THEN Screen(side.ss, side.entries, detail.val, NoException)
    ELSE Screen(side.ss, side.entries, NotRendered, Uncaught("main", detail.exc))

AfterSidebar(side) ==
    IF side.exception # NoException
    THEN Screen(side.ss, side.entries, NotRendered, side.exception)
    ELSE AfterMain(side, MainBlock(side.ss))

AfterSubmit(fetch) ==
    IF fetch.exception # NoException
    THEN Screen(fetch.ss, <<>>, NotRendered, fetch.exception)
    ELSE AfterSidebar(SidebarBlock(fetch.ss))

(* One run of the script from top to bottom *)
RunScript(ss, submitted, outcome) ==
    AfterSubmit(IF submitted THEN SubmitBlock(ss, outcome)
                ELSE [ss |-> ss, exception |-> NoException])

Shows(run, submitted) ==
    /\ session_state' = run.session_state
    /\ sidebar' = run.sidebar
    /\ main' = run.main
    /\ exception' = run.exception
    /\ submit' = submitted

-----------------------------------------------------------------------------
(* User interactions; each reruns the script *)

(* "ログ取得" pressed *)
Submit ==
    /\ \E outcome \in FetchOutcomes : Shows(RunScript(session_state, TRUE, outcome), TRUE)
    /\ UNCHANGED parseVars

(* "Show" pressed in a sidebar container: show_click runs, then the script *)
ShowClick ==
    /\ \E i \in DOMAIN sidebar :
         /\ sidebar[i].show
         /\ Shows(RunScript(Set(session_state, "event", sidebar[i].event), FALSE, <<>>), FALSE)
    /\ UNCHANGED parseVars

(* A settings widget edited: the script reruns with submit = False *)
Rerun ==
    /\ Shows(RunScript(session_state, FALSE, <<>>), FALSE)
    /\ UNCHANGED parseVars

-----------------------------------------------------------------------------
(* Specifications *)

(* The page after its first load: nothing in st.session_state *)
Init ==
    /\ session_state = <<>>
    /\ submit = FALSE
    /\ sidebar = <<>>
    /\ main = NotRendered
    /\ exception = NoException
    /\ message = NotJson
    /\ parsed = NoResult
    /\ tagged = NoResult
    /\ pc = "idle"

Next == Submit \/ ShowClick \/ Rerun

Spec == Init /\ [][Next]_vars

(* The parser harness over every message of Messages *)
InitParse ==
    /\ session_state = <<>>
    /\ submit = FALSE
    /\ sidebar = <<>>
    /\ main = NotRendered
    /\ exception = NoException
    /\ message \in Messages
    /\ parsed = NoResult
    /\ tagged = NoResult
    /\ pc = "input"

NextParse == Parse \/ BuildTags

SpecParse == InitParse /\ [][NextParse]_vars

-----------------------------------------------------------------------------
(* Properties of split_event and write_tag, checked under SpecParse *)

HasKey(doc, key) == doc.j = "object" /\ key \in DOMAIN doc.m
Parsed == pc \in {"parsed", "tagged"}
Accepted == Parsed /\ parsed.ok

HasInputKey(key) ==
    /\ HasKey(message.doc, "input")
    /\ HasKey(message.doc.m["input"], key)

InputValue(key) == decode(message.doc.m["input"].m[key])

HasOutputBody ==
    /\ HasKey(message.doc, "output")
    /\ HasKey(message.doc.m["output"], "outputBodyJson")

OutputBody == message.doc.m["output"].m["outputBodyJson"]

SummaryKeys == {"timestamp", "modelId", "operation", "usage", "latencyMs"}

(* C1: a message that is not valid JSON, or that is valid JSON without one of
   the top-level fields timestamp, modelId, operation, makes split_event fail:
   no parsed event is returned and no default stands in for the field. *)
C1_MalformedRecordFails ==
    (Parsed /\ (~message.valid \/ \E k \in RequiredKeys : ~HasKey(message.doc, k)))
        => ~parsed.ok

C1_Witness ==
    /\ pc = "parsed"
    /\ message.valid
    /\ message.doc.j = "object"
    /\ RequiredKeys \ {"modelId"} \subseteq DOMAIN message.doc.m
    /\ ~HasKey(message.doc, "modelId")
    /\ ~parsed.ok
    /\ parsed.exc = "KeyError"

(* C4 as claimed: for every accepted message the inline input and the external
   pointer are never both set; the inline input is set whenever
   input.inputBodyJson exists; the pointer is set, to the path, only when
   input.inputBodyS3Path exists without input.inputBodyJson; both are unset
   when the input container or both keys are absent. *)
C4_InputSetWheneverKeyExists ==
    Accepted =>
        /\ ~(parsed.val.input_body_json # None /\ parsed.val.input_body_s3_path # None)
        /\ HasInputKey("inputBodyJson") => parsed.val.input_body_json # None
        /\ parsed.val.input_body_s3_path # None =>
              /\ HasInputKey("inputBodyS3Path")
              /\ ~HasInputKey("inputBodyJson")
              /\ parsed.val.input_body_s3_path = InputValue("inputBodyS3Path")
        /\ (~HasInputKey("inputBodyJson") /\ ~HasInputKey("inputBodyS3Path")) =>
              /\ parsed.val.input_body_json = None
              /\ parsed.val.input_body_s3_path = None

(* C4 amended: for every accepted message the inline input and the external
   pointer are never both set; when input.inputBodyJson exists the inline input
   is its value (so it is set unless that value is JSON null) and the pointer
   is unset, even if input.inputBodyS3Path exists too; when only
   input.inputBodyS3Path exists the pointer is its value and the inline input
   is unset; both are unset when the input container or both keys are absent. *)
C4_InputExclusive ==
    Accepted =>
        /\ ~(parsed.val.input_body_json # None /\ parsed.val.input_body_s3_path # None)
        /\ HasInputKey("inputBodyJson") =>
              /\ parsed.val.input_body_json = InputValue("inputBodyJson")
              /\ parsed.val.input_body_s3_path = None
        /\ (HasInputKey("inputBodyS3Path") /\ ~HasInputKey("inputBodyJson")) =>
              /\ parsed.val.input_body_s3_path = InputValue("inputBodyS3Path")
              /\ parsed.val.input_body_json = None
        /\ (~HasInputKey("inputBodyJson") /\ ~HasInputKey("inputBodyS3Path")) =>
              /\ parsed.val.input_body_json = None
              /\ parsed.val.input_body_s3_path = None

C4_Witness ==
    /\ Accepted
    /\ HasInputKey("inputBodyJson")
    /\ HasInputKey("inputBodyS3Path")
    /\ parsed.val.input_body_json # None
    /\ parsed.val.input_body_s3_path = None

(* C5: the metadata of every parsed event has timestamp, modelId, operation,
   usage and latencyMs, and write_tag succeeds on it. *)
C5_AlwaysSummarizable ==
    pc = "tagged" =>
        /\ SummaryKeys \subseteq DOMAIN parsed.val.metadata
        /\ tagged.ok

(* C6: for an accepted message without an output container, the output is
   unset, usage is the zero default, latencyMs is 0 and metadata has no
   stopReason. *)
C6_NoOutputDefaults ==
    (Accepted /\ ~HasKey(message.doc, "output")) =>
        /\ parsed.val.output_body_json = None
        /\ parsed.val.metadata["usage"] =
              PyDict([inputTokens |-> PyInt(0), outputTokens |-> PyInt(0),
                      totalTokens |-> PyInt(0)])
        /\ parsed.val.metadata["latencyMs"] = PyInt(0)
        /\ "stopReason" \notin DOMAIN parsed.val.metadata

C6_Witness ==
    /\ Accepted
    /\ ~HasKey(message.doc, "output")
    /\ HasKey(message.doc, "input")
    /\ parsed.val.output_body_json = None
    /\ parsed.val.metadata["latencyMs"] = PyInt(0)

(* C7: for every accepted message whose output.outputBodyJson is present (and
   not null, so that the output is set), metadata's stopReason, usage and
   latencyMs are the output's stopReason, usage and metrics.latencyMs, never
   the zero default. *)
C7_OutputMetadataCopied ==
    (Accepted /\ HasOutputBody /\ OutputBody # JNull) =>
        /\ parsed.val.output_body_json = decode(OutputBody)
        /\ HasKey(OutputBody, "stopReason")
        /\ HasKey(OutputBody, "usage")
        /\ HasKey(OutputBody, "metrics")
        /\ HasKey(OutputBody.m["metrics"], "latencyMs")
        /\ "stopReason" \in DOMAIN parsed.val.metadata
        /\ parsed.val.metadata["stopReason"] = decode(OutputBody.m["stopReason"])
        /\ parsed.val.metadata["usage"] = decode(OutputBody.m["usage"])
        /\ parsed.val.metadata["latencyMs"] = decode(OutputBody.m["metrics"].m["latencyMs"])

(* C8: write_tag emits the four tags coloured BLUE, GREEN, ORANGE, GRAY, and a
   fifth one, coloured RED, exactly when errorCode is set, whatever its value
   (the empty string included). *)
C8_ErrorTagIffSet ==
    (pc = "tagged" /\ tagged.ok) =>
        LET colors == tagged.val.color_name
            n == Len(tagged.val.tags)
            isSet == parsed.val.errorCode # None
        IN /\ Len(colors) = n
           /\ n = IF isSet THEN 5 ELSE 4
           /\ SubSeq(colors, 1, 4) = <<"BLUE", "GREEN", "ORANGE", "GRAY">>
           /\ colors[n] = "RED" <=> isSet

WithoutErrorCode(msg) ==
    JsonText(JObj([k \in DOMAIN msg.doc.m \ {"errorCode"} |-> msg.doc.m[k]]))

SameButErrorCode(p, q) ==
    /\ p.input_body_json = q.input_body_json
    /\ p.input_body_s3_path = q.input_body_s3_path
    /\ p.output_body_json = q.output_body_json
    /\ p.metadata = q.metadata

(* C9 as claimed: for every accepted message errorCode is set if and only if
   the top-level record has the key errorCode, and then equals its value; a
   nested errorCode does not set it; the key changes no other field. *)
C9_ErrorCodeSetIffKey ==
    Accepted =>
        /\ parsed.val.errorCode # None <=> HasKey(message.doc, "errorCode")
        /\ HasKey(message.doc, "errorCode") =>
              parsed.val.errorCode = decode(message.doc.m["errorCode"])
        /\ split_event(WithoutErrorCode(message)).ok
        /\ SameButErrorCode(parsed.val, split_event(WithoutErrorCode(message)).val)

(* C9 amended: for every accepted message errorCode is the value of the
   top-level key errorCode when the record has that key (so it is set unless
   that value is JSON null) and unset when it has not; a nested errorCode does
   not set it; the key changes no other field. *)
C9_ErrorCodeCopied ==
    Accepted =>
        /\ parsed.val.errorCode =
              IF HasKey(message.doc, "errorCode") THEN decode(message.doc.m["errorCode"])
              ELSE None
        /\ split_event(WithoutErrorCode(message)).ok
        /\ SameButErrorCode(parsed.val, split_event(WithoutErrorCode(message)).val)

C9_Witness ==
    /\ Accepted
    /\ HasKey(message.doc, "errorCode")
    /\ HasKey(message.doc, "output")
    /\ HasKey(message.doc.m["output"], "errorCode")
    /\ parsed.val.errorCode = PyStr("")

-----------------------------------------------------------------------------
(* Properties of the session, checked under Spec *)

StoredEvents(ss) == IF "events" \in DOMAIN ss THEN <<ss["events"]>> ELSE <<>>

(* C2: when the sidebar list is rendered and the parse of one stored record
   fails, every record whose parse succeeds still has its container. *)
C2_ParseFailureIsPerRecord ==
    ("events" \in DOMAIN session_state /\ exception.stage # "fetch") =>
        \A i \in DOMAIN session_state["events"] :
            split_event(session_state["events"][i].message).ok =>
                \E k \in DOMAIN sidebar : sidebar[k].event = session_state["events"][i]

(* C3: a fetch that fails at describe_log_streams (an empty logStreams
   included) or at filter_log_events leaves the stored events list as it was. *)
C3_FailedFetchKeepsEvents ==
    [][exception'.stage = "fetch" => StoredEvents(session_state') = StoredEvents(session_state)]_vars

C3_Witness ==
    /\ exception.stage = "fetch"
    /\ submit
    /\ "events" \in DOMAIN session_state
    /\ Len(session_state["events"]) > 1

(* C10: a held selection is an element of the stored events list, and after a
   successful fetch of a non-empty list the selection is its first event. *)
C10_SelectionFollowsList ==
    /\ "event" \in DOMAIN session_state =>
          /\ "events" \in DOMAIN session_state
          /\ \E i \in DOMAIN session_state["events"] :
                session_state["events"][i] = session_state["event"]
    /\ (submit /\ exception.stage # "fetch" /\ Len(session_state["events"]) > 0) =>
          /\ "event" \in DOMAIN session_state
          /\ session_state["event"] = session_state["events"][1]
          /\ \A i \in DOMAIN session_state["events"] :
                session_state["events"][i].timestamp <= session_state["event"].timestamp

(* The first half of C10 alone: a held selection is an element of the stored
   events list. *)
C10_SelectionInList ==
    "event" \in DOMAIN session_state =>
        /\ "events" \in DOMAIN session_state
        /\ \E i \in DOMAIN session_state["events"] :
              session_state["events"][i] = session_state["event"]

====
